---- MODULE Spec2Model ----
(***************************************************************************)
(* Model of the printer ship dashboard (GenesisShipDashboard): the order   *)
(* store (orders, totalOrders), the reconciliation run (shipNow and        *)
(* pollForLabels), the bulk sync (syncOrders) and the store refresh        *)
(* (fetchGenesisOrders).                                                   *)
(*                                                                         *)
(* React state lives in the state variables.  A handler is a closure of    *)
(* one render: it reads the values that render saw, which are kept in the  *)
(* variable view and brought up to date by the action Render.  An async    *)
(* handler keeps the values of its render for its whole life (cap).        *)
(* Every await of a network response or of a timer is a position (pc) of   *)
(* an invocation slot; the code between two awaits is one action.          *)
(***************************************************************************)
EXTENDS Integers, Sequences, FiniteSets, TLC

\* ------------------------------------------------------------------ bounds

\* pollForLabels is called with maxAttempts 2 (part_002) or 20 (part_001) and
\* defaults to 15; a run of the model draws maxAttempts from 1..MaxAttempts.
MaxAttempts == 3
\* Longest listing the listing service answers a poll with.
MaxPollListing == 2
\* Longest listing the listing service answers a refresh with.
MaxListing == 2

\* The slots for handler invocations and refreshes that are under way.
Procs == {"p1", "p2"}

\* ------------------------------------------------------------- the values

Ids == {"A100", "A101"}
Labels == {"u1", "u2"}
\* JavaScript's null (an entry of the result map that was not found) and
\* undefined (a property a JSON item does not carry).
Null == "null"
Undef == "undefined"

pageSize == 18

Truthy(v) == v \notin {Null, Undef, ""}

\* v || ""
OrEmpty(v) == IF Truthy(v) THEN v ELSE ""

Range(s) == {s[i] : i \in DOMAIN s}

SeqsUpTo(S, n) == UNION {[1..k -> S] : k \in 0..n}

EmptyMap == [id \in {} |-> Null]

\* ----------------------------------------------------------- pollForLabels

\* const result = {}; for (const id of orderIds) result[id] = null;
InitResult(orderIds) == [id \in orderIds |-> Null]

\* The items a poll consumes of a listing: order_id and label_url.
PollItems == [order_id : Ids \cup {""}, label_url : Labels \cup {Undef}]

\* for (const d of data) if (d && d.order_id) map.set(d.order_id, d.label_url);
\* map.get(id) of an id the listing does not carry is undefined.
RECURSIVE BuildMap(_)
BuildMap(data) ==
  IF data = <<>> THEN [id \in Ids |-> Undef]
  ELSE LET n == Len(data)
           d == data[n]
           m == BuildMap(SubSeq(data, 1, n - 1))
       IN IF Truthy(d.order_id) THEN [m EXCEPT ![d.order_id] = d.label_url] ELSE m

\* MergeLabels with the loop running over the listing instead of orderIds.
MergeLabelsOfListing(result, orderIds, map) ==
  LET hit == {id \in Ids : Truthy(map[id])}
  IN [id \in (DOMAIN result) \cup hit |->
        IF id \in hit THEN map[id] ELSE result[id]]

\* MergeLabels with every entry set from the latest listing: result[id] = lbl ?? null.
MergeLabelsOfLatest(result, orderIds, map) ==
  [id \in DOMAIN result |-> IF Truthy(map[id]) THEN map[id] ELSE Null]

\* for (const id of orderIds) { const lbl = map.get(id); if (lbl) result[id] = lbl; ... }
MergeLabels(result, orderIds, map) ==
  LET hit == {id \in orderIds : Truthy(map[id])}
  IN [id \in (DOMAIN result) \cup hit |->
        IF id \in hit THEN map[id] ELSE result[id]]

\* ------------------------------------------------------ fetchGenesisOrders

\* The fields of a RawOrder the model keeps: the identity, the queue tag, the
\* label, the timestamp, and name for the display fields (phone_number, city,
\* bookId, ..., zip), which the code only copies.
PrinterTags == {"genesis", "Genesis", "yara", Undef}
\* Timestamps a listing can carry: two instants of 2024, the epoch, the second
\* before it, and a text that is no date.
Stamps ==
  {Undef, "2024-01-05T10:00:00", "2024-01-06T10:00:00", "1970-01-01T00:00:00",
   "1969-12-31T23:59:59", "pending"}
Names == {Undef, "Asha"}
ListedIds == Ids \cup {"TEST#1", "test#2"}

RawOrders ==
  [order_id : ListedIds, printer : PrinterTags, label_url : Labels \cup {Undef},
   print_sent_at : Stamps, name : Names]

\* (o.printer ?? "").toLowerCase() and printerKey.toLowerCase()
ToLowerCase(s) ==
  CASE s = "Genesis" -> "genesis"
    [] s = Undef -> ""
    [] OTHER -> s

\* (o.order_id ?? "").toUpperCase().startsWith("TEST#")
IsTestId(id) == id \in {"TEST#1", "test#2"}

\* KeepOrder with the prefix compared without toUpperCase().
KeepOrderExactPrefix(o, printer) ==
  ToLowerCase(o.printer) = ToLowerCase(printer) /\ o.order_id # "TEST#1"

\* data.filter(...)
KeepOrder(o, printer) ==
  ToLowerCase(o.printer) = ToLowerCase(printer) /\ ~IsTestId(o.order_id)

\* filtered.map(...): every optional field is normalised to "" when it is absent
Trimmed(o) ==
  [order_id |-> o.order_id, printer |-> OrEmpty(o.printer),
   label_url |-> OrEmpty(o.label_url), print_sent_at |-> OrEmpty(o.print_sent_at),
   name |-> OrEmpty(o.name)]

\* The text of a timestamp, as far as parse looks at it.  date: the text is
\* YYYY-MM-DDTHH:mm:ss with an optional fraction and an optional zone; wall:
\* the seconds since the epoch of that date and time read as UTC; digits: the
\* number of digits of the fraction (0: no fraction); zone: the zone suffix,
\* "" when there is none.
NotADate == [date |-> FALSE, wall |-> 0, digits |-> 0, zone |-> ""]

Zones == {"", "Z", "+00:00", "+05:30", "-0800"}

\* The seconds a zone suffix is ahead of UTC.
ZoneOffset(zone) ==
  CASE zone = "+05:30" -> 19800
    [] zone = "-0800" -> -28800
    [] OTHER -> 0

TextOf(v) ==
  CASE v = "2024-01-05T10:00:00" -> [NotADate EXCEPT !.date = TRUE, !.wall = 1704448800]
    [] v = "2024-01-06T10:00:00" -> [NotADate EXCEPT !.date = TRUE, !.wall = 1704535200]
    [] v = "1970-01-01T00:00:00" -> [NotADate EXCEPT !.date = TRUE, !.wall = 0]
    [] v = "1969-12-31T23:59:59" -> [NotADate EXCEPT !.date = TRUE, !.wall = -1]
    [] OTHER -> NotADate

\* /[zZ]|[+-]\d{2}:?\d{2}$/.test(v)
HasZone(t) == t.date /\ t.zone # ""

\* v.replace(/(\.\d{3})\d+/, "$1")
Truncated(t) == IF t.date /\ t.digits > 3 THEN [t EXCEPT !.digits = 3] ELSE t

\* let normalized = v; if (!zone.test(v)) normalized = v.replace(...) + "Z";
Normalized(t) == IF HasZone(t) THEN t ELSE [Truncated(t) EXCEPT !.zone = "Z"]

\* new Date(text).getTime().  ECMAScript fixes the result for the date-time
\* string format (a fraction of three digits or none, the zone Z or +HH:mm);
\* what any other text gives is left to the engine: the instant it denotes
\* ("lenient") or NaN ("strict").  A text that is no date gives NaN.
Engines == {"lenient", "strict"}

NaN == [nan |-> TRUE, time |-> 0]

Conforming(t) == t.date /\ t.digits \in {0, 3} /\ t.zone \in {"Z", "+00:00", "+05:30"}

GetTime(t, engine) ==
  IF t.date /\ (Conforming(t) \/ engine = "lenient")
  THEN [nan |-> FALSE, time |-> t.wall - ZoneOffset(t.zone)]
  ELSE NaN

\* const d = new Date(normalized); return d.getTime() || 0;
parseText(t, engine) ==
  LET ms == GetTime(Normalized(t), engine) IN IF ms.nan THEN 0 ELSE ms.time

\* parse of the sort comparator, in seconds: 0 for a missing timestamp (!v),
\* and 0 again through "d.getTime() || 0" for a text that is no date (NaN) and
\* for the epoch itself.  The timestamps of Stamps carry no fraction and no
\* zone, so that the engines agree on them.
parse(v) == IF ~Truthy(v) THEN 0 ELSE parseText(TextOf(v), "strict")

RECURSIVE FilterSeq(_, _)
FilterSeq(data, printer) ==
  IF data = <<>> THEN <<>>
  ELSE LET rest == FilterSeq(Tail(data), printer)
       IN IF KeepOrder(Head(data), printer) THEN <<Head(data)>> \o rest ELSE rest

\* Array.prototype.sort is stable: x goes behind every element that does not
\* compare after it, parse(b) - parse(a) putting the later timestamp first.
RECURSIVE InsertSorted(_, _)
InsertSorted(x, s) ==
  IF s = <<>> THEN <<x>>
  ELSE IF parse(Head(s).print_sent_at) >= parse(x.print_sent_at)
       THEN <<Head(s)>> \o InsertSorted(x, Tail(s))
       ELSE <<x>> \o s

RECURSIVE SortOrders(_)
SortOrders(s) ==
  IF s = <<>> THEN <<>>
  ELSE InsertSorted(s[Len(s)], SortOrders(SubSeq(s, 1, Len(s) - 1)))

\* What a listing request can come back with.  kind: "ok" (a 2xx response whose
\* body decodes), "status" (a non-OK status), "throw" (fetch rejects),
\* "body" (res.json() rejects, or the body is no listing).  total is json.total,
\* NoTotal when the body is a bare array or carries no number there.
NoTotal == -1
FailKinds == {"status", "throw", "body"}

\* The orders and the total a decoded listing puts into the store.
StoreOf(items, total, printer) ==
  LET filtered == FilterSeq(items, printer)
      trimmed == [i \in DOMAIN filtered |-> Trimmed(filtered[i])]
  IN [orders |-> SortOrders(trimmed),
      total |-> IF total # NoTotal THEN total ELSE Len(items)]

\* ------------------------------------------------------------------ state

VARIABLES
  selected,      \* useState: the selection set
  loading,       \* useState: a refresh is under way
  isShipping,    \* useState
  isSyncing,     \* useState
  currentPage,   \* useState
  orders,        \* useState: the store's records, in display order
  totalOrders,   \* useState
  printerKey,    \* useState
  token,         \* useState
  role,          \* useState
  initialized,   \* useState
  view,          \* the values the closures of the last committed render read
  procs,         \* the invocations under way, one per slot
  event          \* what the last step did: the alert or console line and its data

vars ==
  <<selected, loading, isShipping, isSyncing, currentPage, orders, totalOrders,
    printerKey, token, role, initialized, view, procs, event>>

\* const isMutating = isShipping || isSyncing;
isMutating == isShipping \/ isSyncing

\* Math.max(1, Math.ceil(totalOrders / pageSize))
totalPages(total) ==
  LET c == (total + pageSize - 1) \div pageSize IN IF c > 1 THEN c ELSE 1

\* What a render that commits now hands to its closures.
Snapshot ==
  [isMutating |-> isMutating, selected |-> selected, currentPage |-> currentPage,
   token |-> token, printerKey |-> printerKey, initialized |-> initialized,
   rows |-> {orders[i].order_id : i \in DOMAIN orders},
   totalPages |-> totalPages(totalOrders)]

NoMap == [id \in Ids |-> Undef]
NoCounts == [matched |-> 0, eligible |-> 0, succeeded |-> 0]
\* j.created of a creation response that carries no array there.
NoCreated == [array |-> FALSE, ids |-> <<>>]
\* No timestamp parsed, and no request judged by the middleware.
NoParse == [text |-> NotADate, given |-> NotADate, engine |-> "", time |-> 0]
\* The printer and token parameters of the address, Undef for one it lacks.
NoUrl == [printer |-> Undef, token |-> Undef]
NoRequest ==
  [path |-> "", userId |-> Null, secretKey |-> "", lookup |-> "",
   emailAddresses |-> <<>>, primaryEmailAddressId |-> Null]

IdleProc ==
  [pc |-> "idle", page |-> 0, printer |-> "", payload |-> {}, targetIds |-> {},
   maxAttempts |-> 0, attempt |-> 0, result |-> EmptyMap, nPoll |-> 0,
   nSleep |-> 0, inflight |-> 0, sawLabel |-> FALSE, counts |-> NoCounts,
   nReq |-> 0, nFail |-> 0]

Ev(tag, p, msg) ==
  [tag |-> tag, p |-> p, msg |-> msg, ok |-> FALSE, map |-> NoMap,
   counts |-> NoCounts, status |-> "", detail |-> Undef, created |-> NoCreated,
   parse |-> NoParse, req |-> NoRequest, url |-> NoUrl]

Init ==
  /\ selected = {}
  /\ loading = FALSE
  /\ isShipping = FALSE
  /\ isSyncing = FALSE
  /\ currentPage = 1
  /\ orders = <<>>
  /\ totalOrders = 0
  /\ printerKey = "genesis"
  /\ token = ""
  /\ role = Null
  /\ initialized = FALSE
  /\ view = Snapshot
  /\ procs = [p \in Procs |-> IdleProc]
  /\ event = Ev("init", "", "")

\* ---------------------------------------------------------------- session

\* The dependencies of the refetch effect: currentPage, fetchGenesisOrders (a
\* new function when printerKey or token changed), initialized, token.
Deps(v) == <<v.currentPage, v.printerKey, v.token, v.initialized>>

EffectDue == Deps(Snapshot) # Deps(view) /\ initialized /\ Truthy(token)

\* React commits the render a state update asked for before the browser runs
\* another task: an operator's input and a continuation of an awaited response
\* or timer find the closures of the current state.  Only an invocation of
\* shipNow or syncOrders may also be dispatched from the render that an earlier
\* invocation has just left, before the flag that one set is visible.
Committed == view = Snapshot

SameRender == [view EXCEPT !.isMutating = isMutating] = Snapshot

RenderPending ==
  view # Snapshot /\ (EffectDue => \E p \in Procs : procs[p].pc = "idle")

USERS ==
  { [username |-> "genesis", printer |-> "genesis",
     token |-> "Q7F9sX2M8VwRkA3ZP4mJtE6D5HcLNYUeGqKBa"],
    [username |-> "yara", printer |-> "yara",
     token |-> "Zk4T8H9J2c5sA3VwP6MELXRYFQNDmUGB7qKe"],
    [username |-> "admin", printer |-> "admin",
     token |-> "9M8qKZJ2F6XcR4A5wDHBtELPsNYGVUm"] }

\* The effect of the first load: printer and token are read from the URL.
\* urlPrinter and urlToken are what params.get returns, Undef for null.
\* What the effect of the first load makes of the parameters of the address.
\* URLSearchParams encodes and decodes the values; the queue names and the
\* tokens of USERS are letters and digits, which the encoding leaves as they
\* are.
LoadedPrinter(urlPrinter) ==
  LET pr == ToLowerCase(OrEmpty(IF Truthy(urlPrinter) THEN urlPrinter ELSE "genesis"))
  IN IF pr = "yara" THEN "yara" ELSE "genesis"

LoadedToken(urlToken) == OrEmpty(urlToken)

LoadedRole(urlToken) ==
  IF LoadedToken(urlToken) = "ADMIN999" THEN "admin"
  ELSE IF Truthy(LoadedToken(urlToken)) THEN "printer" ELSE Null

Mount(urlPrinter, urlToken) ==
     /\ Committed
     /\ ~initialized
     /\ printerKey' = LoadedPrinter(urlPrinter)
     /\ role' = LoadedRole(urlToken)
     /\ token' = LoadedToken(urlToken)
     /\ initialized' = TRUE
     /\ event' = Ev("mount", "", "")
     /\ UNCHANGED <<selected, loading, isShipping, isSyncing, currentPage, orders,
                    totalOrders, view, procs>>

\* The address handleLogin writes with replaceState: params.set("printer",
\* defaultPrinter); params.set("token", user.token).
LoginUrl(user) ==
  [printer |-> IF user.printer = "admin" THEN "genesis" ELSE user.printer,
   token |-> user.token]

\* handleLogin, submitted from the login form with the name of a user whose
\* password was typed correctly, or with credentials no user has ("nobody").
handleLogin(name) ==
  /\ Committed
  /\ view.initialized /\ ~Truthy(view.token)
  /\ \/ /\ \E u \in USERS : u.username = name
        /\ LET user == CHOOSE u \in USERS : u.username = name
           IN /\ token' = user.token
              /\ printerKey' = IF user.printer = "admin" THEN "genesis" ELSE user.printer
              /\ role' = IF user.printer = "admin" THEN "admin" ELSE "printer"
              /\ currentPage' = 1
              /\ event' = [Ev("login", "", "") EXCEPT !.url = LoginUrl(user)]
     \/ /\ ~\E u \in USERS : u.username = name
        /\ event' = Ev("login:error", "", "Invalid username or password.")
        /\ UNCHANGED <<token, printerKey, role, currentPage>>
  /\ UNCHANGED <<selected, loading, isShipping, isSyncing, orders, totalOrders,
                 initialized, view, procs>>

handleLogout ==
  /\ Committed
  /\ Truthy(view.token)
  /\ token' = ""
  /\ role' = Null
  /\ selected' = {}
  /\ orders' = <<>>
  /\ totalOrders' = 0
  /\ event' = Ev("logout", "", "")
  /\ UNCHANGED <<loading, isShipping, isSyncing, currentPage, printerKey,
                 initialized, view, procs>>

toggleSelect(orderId) ==
  /\ Committed
  /\ Truthy(view.token)
  /\ orderId \in view.rows
  /\ selected' = IF orderId \in selected THEN selected \ {orderId}
                 ELSE selected \cup {orderId}
  /\ event' = Ev("toggle", "", "")
  /\ UNCHANGED <<loading, isShipping, isSyncing, currentPage, orders, totalOrders,
                 printerKey, token, role, initialized, view, procs>>

gotoPage(page) ==
  /\ Committed
  /\ Truthy(view.token)
  /\ \/ /\ (page < 1 \/ page > view.totalPages)
        /\ event' = Ev("goto:ignored", "", "")
        /\ UNCHANGED currentPage
     \/ /\ ~(page < 1 \/ page > view.totalPages)
        /\ currentPage' = page
        /\ event' = Ev("goto", "", "")
  /\ UNCHANGED <<selected, loading, isShipping, isSyncing, orders, totalOrders,
                 printerKey, token, role, initialized, view, procs>>

\* fetchGenesisOrders up to its first await, called from a closure that holds a
\* token: setLoading(true) and the listing request for (page, printer).
Fetching(p, pc, page, printer) ==
  [procs[p] EXCEPT !.pc = pc, !.page = page, !.printer = printer]

\* React commits a render: the closures now read the current state.
Render ==
  /\ view # Snapshot
  /\ ~EffectDue
  /\ view' = Snapshot
  /\ event' = Ev("render", "", "")
  /\ UNCHANGED <<selected, loading, isShipping, isSyncing, currentPage, orders,
                 totalOrders, printerKey, token, role, initialized, procs>>

\* A render after which the refetch effect runs, a dependency having changed:
\* if (!initialized || !token) return; fetchGenesisOrders(currentPage, searchText).
RenderRefetch(p) ==
  /\ view # Snapshot
  /\ EffectDue
  /\ procs[p].pc = "idle"
  /\ view' = Snapshot
  /\ loading' = TRUE
  /\ procs' = [procs EXCEPT ![p] = Fetching(p, "effRefresh", currentPage, printerKey)]
  /\ event' = Ev("render:refetch", p, "")
  /\ UNCHANGED <<selected, isShipping, isSyncing, currentPage, orders, totalOrders,
                 printerKey, token, role, initialized>>

\* ------------------------------------------- fetchGenesisOrders, settled

\* A listing response: [kind, items, total].
Listings(items, totals, n) ==
  [kind : {"ok"}, items : SeqsUpTo(items, n), total : totals]
    \cup [kind : FailKinds, items : {<<>>}, total : {NoTotal}]

\* FailedStore with the store left as it was.
FailedStoreKept == [orders |-> orders, total |-> totalOrders]

\* setOrders([]); setTotalOrders(0): the non-OK branch and the catch block
FailedStore == [orders |-> <<>>, total |-> 0]

\* What the refresh writes to the store for a response.
Refreshed(resp, printer) ==
  IF resp.kind = "ok" THEN StoreOf(resp.items, resp.total, printer) ELSE FailedStore

\* The rest of fetchGenesisOrders once the response is in, finally included.
SettleFetch(resp, printer) ==
  /\ orders' = Refreshed(resp, printer).orders
  /\ totalOrders' = Refreshed(resp, printer).total
  /\ loading' = FALSE

\* The refresh the refetch effect started comes back.
RefetchDone(p, listings) ==
  /\ ~RenderPending
  /\ procs[p].pc = "effRefresh"
  /\ \E resp \in listings :
       /\ SettleFetch(resp, procs[p].printer)
       /\ procs' = [procs EXCEPT ![p] = IdleProc]
       /\ event' = Ev("refresh", p, resp.kind)
       /\ UNCHANGED <<selected, isShipping, isSyncing, currentPage, printerKey, token,
                      role, initialized, view>>

\* ------------------------------------------------- shipNow, pollForLabels

\* A response of the shipment-creation service.  kind: "ok", "status" (a
\* non-OK status), "throw" (fetch rejects), "body" (res.json() of an OK response
\* rejects).  json: the body of a non-OK response decodes; detail: its detail
\* field; created: j.created, whether it is an array and the order_id of each of
\* its entries (Undef for an entry without one).
CreatedLists(n) == {NoCreated} \cup [array : {TRUE}, ids : SeqsUpTo(Ids \cup {Undef}, n)]

CreateResponses(createdLists) ==
  [kind : {"ok"}, status : {"200"}, json : {TRUE}, detail : {Undef}, created : createdLists]
    \cup [kind : {"status"}, status : {"400", "500"}, json : {TRUE},
          detail : {Undef, "Order already shipped"}, created : {NoCreated}]
    \cup [kind : {"status"}, status : {"400", "500"}, json : {FALSE},
          detail : {Undef}, created : {NoCreated}]
    \cup [kind : {"throw", "body"}, status : {""}, json : {FALSE}, detail : {Undef},
          created : {NoCreated}]

\* `HTTP ${res.status}`
HttpMessage(status) == IF status = "400" THEN "HTTP 400" ELSE "HTTP 500"

\* The message of the error shipNow's catch block alerts.
ShipError(resp) ==
  CASE resp.kind = "throw" -> "Failed to fetch"
    [] resp.kind = "body" -> "Unexpected end of JSON input"
    [] resp.kind = "status" /\ ~resp.json -> HttpMessage(resp.status)
    [] resp.kind = "status" /\ resp.json ->
         IF Truthy(resp.detail) THEN resp.detail ELSE "JSON.stringify(j)"

\* createdArray.map((c) => c.order_id).filter(Boolean)
CreatedIds(created) ==
  IF ~created.array THEN {}
  ELSE {id \in {created.ids[i] : i \in DOMAIN created.ids} : Truthy(id)}

\* TargetIds without the fallback to the selection.
TargetIdsOfCreatedOnly(created, sel) == CreatedIds(created)

\* TargetIds with the selection polled for as well as the created orders.
TargetIdsWithSelection(created, sel) == CreatedIds(created) \cup sel

\* const targetIds = createdIds.length ? createdIds : Array.from(selected);
TargetIds(created, sel) ==
  IF CreatedIds(created) # {} THEN CreatedIds(created) ELSE sel

\* PatchOrder with the test "o.order_id in pollResult" for the truthiness test.
PatchOrderOfAnyTarget(o, pollResult) ==
  IF o.order_id \in DOMAIN pollResult
  THEN [o EXCEPT !.label_url = pollResult[o.order_id]] ELSE o

\* prev.map((o) => pollResult[o.order_id] ? { ...o, label_url: ... } : o)
PatchOrder(o, pollResult) ==
  LET v == IF o.order_id \in DOMAIN pollResult THEN pollResult[o.order_id] ELSE Undef
  IN IF Truthy(v) THEN [o EXCEPT !.label_url = v] ELSE o

\* Patched with the resolved records appended to the store as new records.
PatchedAppending(prev, pollResult) ==
  LET RECURSIVE Resolved(_)
      Resolved(s) ==
        IF s = <<>> THEN <<>>
        ELSE IF PatchOrder(Head(s), pollResult) # Head(s)
             THEN <<PatchOrder(Head(s), pollResult)>> \o Resolved(Tail(s))
             ELSE Resolved(Tail(s))
  IN prev \o Resolved(prev)

\* setOrders((prev) => prev.map(...))
Patched(prev, pollResult) == [i \in DOMAIN prev |-> PatchOrder(prev[i], pollResult)]

\* LoopCond off by one.
LoopCondInclusive(attempt, maxAttempts) == attempt <= maxAttempts

\* attempt < maxAttempts
LoopCond(attempt, maxAttempts) == attempt < maxAttempts

\* AllFound asking for a label of every order, target or not.
AllFoundOfEveryOrder(orderIds, map) == \A id \in Ids : Truthy(map[id])

\* let allFound = true; ... else allFound = false;
AllFound(orderIds, map) == \A id \in orderIds : Truthy(map[id])

\* pollForLabels returns run.result to shipNow, which goes on to its next
\* await: the patch, setSelected(new Set()), the alert, and fetchGenesisOrders
\* up to its request.
Returned(p, run) ==
  /\ orders' = Patched(orders, run.result)
  /\ selected' = {}
  /\ loading' = TRUE
  /\ procs' = [procs EXCEPT ![p] = [run EXCEPT !.pc = "shipRefresh"]]

\* LoopHead with a used-up budget thrown to shipNow's catch block.
LoopHeadThrowsOnExhaustion(p, run) ==
  IF LoopCond(run.attempt, run.maxAttempts)
  THEN /\ procs' = [procs EXCEPT ![p] =
                      [run EXCEPT !.pc = "poll", !.nPoll = @ + 1, !.inflight = @ + 1]]
       /\ UNCHANGED <<orders, selected, loading>>
  ELSE /\ procs' = [procs EXCEPT ![p] = IdleProc]
       /\ UNCHANGED <<orders, selected, loading>>

\* The head of the loop: another listing request, or the return.
LoopHead(p, run) ==
  IF LoopCond(run.attempt, run.maxAttempts)
  THEN /\ procs' = [procs EXCEPT ![p] =
                      [run EXCEPT !.pc = "poll", !.nPoll = @ + 1, !.inflight = @ + 1]]
       /\ UNCHANGED <<orders, selected, loading>>
  ELSE Returned(p, run)

\* Sleeping with the next listing request sent off before the delay.
SleepingOverlapped(p, run) ==
  /\ procs' = [procs EXCEPT ![p] =
                 [run EXCEPT !.pc = "sleep", !.nSleep = @ + 1, !.nPoll = @ + 1,
                             !.inflight = @ + 1]]
  /\ UNCHANGED <<orders, selected, loading>>

\* await new Promise((r) => setTimeout(r, pollIntervalMs))
Sleeping(p, run) ==
  /\ procs' = [procs EXCEPT ![p] = [run EXCEPT !.pc = "sleep", !.nSleep = @ + 1]]
  /\ UNCHANGED <<orders, selected, loading>>

\* AttemptFailed with the failure ending the run.
AttemptFailedEndsRun(p, run) == Returned(p, run)

\* AttemptFailed with the request sent again at once, the attempt not counted.
AttemptFailedRepolls(p, run) ==
  /\ procs' = [procs EXCEPT ![p] = [run EXCEPT !.inflight = @ + 1, !.nFail = @ - 1]]
  /\ UNCHANGED <<orders, selected, loading>>

\* A poll that got no listing: console.warn for a non-OK status, the catch
\* block for a rejected fetch or an undecodable body; the loop goes on to its
\* delay.
AttemptFailed(p, run) == Sleeping(p, run)

shipNow(p) ==
  /\ SameRender
  /\ Truthy(view.token)
  /\ procs[p].pc = "idle"
  /\ \/ /\ view.selected = {}
        /\ event' = Ev("ship:alert", p, "Select at least one order.")
        /\ UNCHANGED <<isShipping, procs>>
     \/ /\ view.selected # {}
        /\ view.isMutating
        /\ event' = Ev("ship:rejected", p, "")
        /\ UNCHANGED <<isShipping, procs>>
     \/ /\ view.selected # {}
        /\ ~view.isMutating
        /\ isShipping' = TRUE
        /\ procs' = [procs EXCEPT ![p] =
                       [IdleProc EXCEPT !.pc = "create", !.page = view.currentPage,
                                        !.printer = view.printerKey,
                                        !.payload = view.selected, !.nReq = 1]]
        /\ event' = Ev("ship:create", p, "")
  /\ UNCHANGED <<selected, loading, isSyncing, currentPage, orders, totalOrders,
                 printerKey, token, role, initialized, view>>

\* CreateFailed with the creation request sent again.
CreateFailedRetried(p, resp) ==
  /\ procs' = [procs EXCEPT ![p] = [procs[p] EXCEPT !.nReq = @ + 1]]
  /\ event' = Ev("ship:create", p, "")
  /\ UNCHANGED <<isShipping, orders, selected, loading>>

\* CreateFailed with finally left out: the flag stays set.
CreateFailedKeepsFlag(p, resp) ==
  /\ procs' = [procs EXCEPT ![p] = IdleProc]
  /\ event' = [Ev("ship:failed", p, ShipError(resp))
                 EXCEPT !.status = resp.status, !.detail = resp.detail]
  /\ UNCHANGED <<isShipping, orders, selected, loading>>

\* The creation request failed: throw new Error(msg) or a rejected await, the
\* catch block's alert, and finally.
CreateFailed(p, resp) ==
  /\ isShipping' = FALSE
  /\ procs' = [procs EXCEPT ![p] = IdleProc]
  /\ event' = [Ev("ship:failed", p, ShipError(resp))
                 EXCEPT !.status = resp.status, !.detail = resp.detail]
  /\ UNCHANGED <<orders, selected, loading>>

\* The creation response is in.  A failure goes to the catch block and to
\* finally; a success starts pollForLabels(targetIds, 3000, maxAttempts).
CreateDone(p, creations, attempts) ==
  /\ ~RenderPending
  /\ procs[p].pc = "create"
  /\ \E resp \in creations, maxAttempts \in attempts :
       /\ \/ /\ resp.kind # "ok"
             /\ CreateFailed(p, resp)
          \/ /\ resp.kind = "ok"
             /\ LET ids == TargetIds(resp.created, procs[p].payload)
                IN LoopHead(p, [procs[p] EXCEPT !.targetIds = ids,
                                                !.maxAttempts = maxAttempts,
                                                !.attempt = 0,
                                                !.result = InitResult(ids)])
             /\ event' = [Ev("ship:polling", p, "") EXCEPT !.created = resp.created]
             /\ UNCHANGED isShipping
       /\ UNCHANGED <<isSyncing, currentPage, totalOrders, printerKey, token, role,
                      initialized, view>>

\* The response of a poll's listing request: [kind, data].
PollResponses(items, n) ==
  [kind : {"ok"}, data : SeqsUpTo(items, n)] \cup [kind : FailKinds, data : {<<>>}]

\* One listing response of a poll is in: the rest of the loop body.
PollDone(p, polls) ==
  /\ ~RenderPending
  /\ procs[p].pc = "poll"
  /\ \E resp \in polls :
       /\ LET run == [procs[p] EXCEPT !.inflight = @ - 1]
              map == BuildMap(resp.data)
          IN \/ /\ resp.kind # "ok"
                /\ AttemptFailed(p, [run EXCEPT !.nFail = @ + 1])
                /\ event' = Ev("poll:failed", p, resp.kind)
             \/ /\ resp.kind = "ok"
                /\ LET merged == [run EXCEPT
                                    !.result = MergeLabels(run.result, run.targetIds, map),
                                    !.sawLabel = @ \/ \E id \in run.targetIds : Truthy(map[id])]
                   IN IF AllFound(run.targetIds, map)
                      THEN Returned(p, merged)
                      ELSE Sleeping(p, merged)
                /\ event' = [Ev("poll", p, "") EXCEPT !.map = map]
       /\ UNCHANGED <<isShipping, isSyncing, currentPage, totalOrders, printerKey, token,
                      role, initialized, view>>

\* The delay is over: attempt++ and the head of the loop.
SleepDone(p) ==
  /\ ~RenderPending
  /\ procs[p].pc = "sleep"
  /\ LoopHead(p, [procs[p] EXCEPT !.attempt = @ + 1])
  /\ event' = Ev("sleep:over", p, "")
  /\ UNCHANGED <<isShipping, isSyncing, currentPage, totalOrders, printerKey, token,
                 role, initialized, view>>

\* The refresh at the end of shipNow is in; finally: setIsShipping(false).
ShipRefreshDone(p, listings) ==
  /\ ~RenderPending
  /\ procs[p].pc = "shipRefresh"
  /\ \E resp \in listings :
       /\ SettleFetch(resp, procs[p].printer)
       /\ isShipping' = FALSE
       /\ procs' = [procs EXCEPT ![p] = IdleProc]
       /\ event' = Ev("ship:refresh", p, resp.kind)
       /\ UNCHANGED <<selected, isSyncing, currentPage, printerKey, token, role,
                      initialized, view>>

\* -------------------------------------------------------------- syncOrders

\* A value a JSON object does not carry, for the numbers of a sync response.
Absent == -1

\* A response of the sync service.  kind: "throw" (fetch rejects) or "resp";
\* ok: res.ok; body: "none" (res.json() rejects, j stays {}), "null" (the body
\* is the JSON null) or "object", with the fields of j.
NoSyncFields ==
  [detail |-> Undef, message |-> Undef, matched_docs |-> Absent,
   eligible_count |-> Absent, eligible_shipments |-> Absent,
   succeeded_shipments |-> Absent]

SyncResponses(fields, bodies) ==
  [kind : {"resp"}, ok : {TRUE}, status : {"200"}, body : {"object"}, j : fields]
    \cup [kind : {"resp"}, ok : {FALSE}, status : {"500"}, body : {"object"}, j : fields]
    \cup [kind : {"resp"}, ok : {TRUE}, status : {"200"}, body : bodies,
          j : {NoSyncFields}]
    \cup [kind : {"resp"}, ok : {FALSE}, status : {"500"}, body : bodies,
          j : {NoSyncFields}]
    \cup [kind : {"throw"}, ok : {FALSE}, status : {""}, body : {"none"},
          j : {NoSyncFields}]

\* (j && (j.detail || j.message)) || `HTTP ${res.status}`
SyncError(resp) ==
  IF resp.body = "object" /\ Truthy(resp.j.detail) THEN resp.j.detail
  ELSE IF resp.body = "object" /\ Truthy(resp.j.message) THEN resp.j.message
  ELSE HttpMessage(resp.status)

\* matched, eligible and succeededCount of the success branch; the lengths of
\* eligible_shipments and succeeded_shipments stand for the arrays.
SyncCounts(j) ==
  [matched |-> IF j.matched_docs # Absent THEN j.matched_docs ELSE 0,
   eligible |-> IF j.eligible_count # Absent THEN j.eligible_count
                ELSE IF j.eligible_shipments # Absent THEN j.eligible_shipments ELSE 0,
   succeeded |-> IF j.succeeded_shipments # Absent THEN j.succeeded_shipments ELSE 0]

\* The success branch is reached: the response is OK and reading j.matched_docs
\* does not throw (it does for the body null).
SyncSucceeds(resp) == resp.kind = "resp" /\ resp.ok /\ resp.body # "null"

\* SyncFailed with the refresh started all the same.
SyncFailedRefreshes(p, resp) ==
  /\ loading' = TRUE
  /\ procs' = [procs EXCEPT ![p] = [procs[p] EXCEPT !.pc = "syncRefresh"]]
  /\ event' = [Ev("sync:failed", p, "") EXCEPT !.ok = resp.ok, !.status = resp.status]
  /\ UNCHANGED isSyncing

\* The sync request failed: the catch block's alert, and finally.
SyncFailed(p, resp) ==
  /\ isSyncing' = FALSE
  /\ procs' = [procs EXCEPT ![p] = IdleProc]
  /\ event' = [Ev("sync:failed", p,
                    IF resp.kind = "throw" THEN "Failed to fetch"
                    ELSE IF ~resp.ok THEN SyncError(resp)
                    ELSE "Cannot read properties of null")
                 EXCEPT !.ok = resp.ok, !.status = resp.status]
  /\ UNCHANGED loading

syncOrders(p, confirmRun) ==
  /\ SameRender
  /\ Truthy(view.token)
  /\ procs[p].pc = "idle"
  /\ \/ /\ view.isMutating
        /\ event' = Ev("sync:rejected", p, "")
        /\ UNCHANGED <<isSyncing, procs>>
     \/ /\ ~view.isMutating
        /\ ~confirmRun
        /\ event' = Ev("sync:cancelled", p, "")
        /\ UNCHANGED <<isSyncing, procs>>
     \/ /\ ~view.isMutating
        /\ confirmRun
        /\ isSyncing' = TRUE
        /\ procs' = [procs EXCEPT ![p] =
                       [IdleProc EXCEPT !.pc = "syncReq", !.page = view.currentPage,
                                        !.printer = view.printerKey, !.nReq = 1]]
        /\ event' = Ev("sync:request", p, "")
  /\ UNCHANGED <<selected, loading, isShipping, currentPage, orders, totalOrders,
                 printerKey, token, role, initialized, view>>

\* The sync response is in.  A failure goes to the catch block and to finally;
\* a success calls fetchGenesisOrders(currentPage, searchText) of the closure.
SyncDone(p, syncs) ==
  /\ ~RenderPending
  /\ procs[p].pc = "syncReq"
  /\ \E resp \in syncs :
       /\ \/ /\ ~SyncSucceeds(resp)
             /\ SyncFailed(p, resp)
          \/ /\ SyncSucceeds(resp)
             /\ loading' = TRUE
             /\ procs' = [procs EXCEPT ![p] =
                            [procs[p] EXCEPT !.pc = "syncRefresh",
                                             !.counts = SyncCounts(resp.j)]]
             /\ event' = [Ev("sync:refreshing", p, "") EXCEPT !.ok = resp.ok]
             /\ UNCHANGED isSyncing
       /\ UNCHANGED <<selected, isShipping, currentPage, orders, totalOrders, printerKey,
                      token, role, initialized, view>>

\* The refresh of syncOrders is in: the alert with the counts, and finally.
SyncRefreshDone(p, listings) ==
  /\ ~RenderPending
  /\ procs[p].pc = "syncRefresh"
  /\ \E resp \in listings :
       /\ SettleFetch(resp, procs[p].printer)
       /\ isSyncing' = FALSE
       /\ procs' = [procs EXCEPT ![p] = IdleProc]
       /\ event' = [Ev("sync:completed", p, resp.kind) EXCEPT !.counts = procs[p].counts]
       /\ UNCHANGED <<selected, isShipping, currentPage, printerKey, token, role,
                      initialized, view>>

\* ---------------------------------------------------------- specifications

\* The next-state relation over the slots P and the inputs D, the sets the
\* environment's answers and the operator's inputs are drawn from.
NextOver(P, D) ==
  \/ \E up \in D.urlPrinters, ut \in D.urlTokens : Mount(up, ut)
  \/ \E name \in D.logins : handleLogin(name)
  \/ handleLogout
  \/ \E id \in Ids : toggleSelect(id)
  \/ \E page \in D.pages : gotoPage(page)
  \/ Render
  \/ \E p \in P : RenderRefetch(p)
  \/ \E p \in P : RefetchDone(p, D.listings)
  \/ \E p \in P : shipNow(p)
  \/ \E p \in P : CreateDone(p, D.creations, D.attempts)
  \/ \E p \in P : PollDone(p, D.polls)
  \/ \E p \in P : SleepDone(p)
  \/ \E p \in P : ShipRefreshDone(p, D.listings)
  \/ \E p \in P, c \in BOOLEAN : syncOrders(p, c)
  \/ \E p \in P : SyncDone(p, D.syncs)
  \/ \E p \in P : SyncRefreshDone(p, D.listings)

GenesisToken == "Q7F9sX2M8VwRkA3ZP4mJtE6D5HcLNYUeGqKBa"

\* pollForLabels(targetIds, 3000, 2)
ShipMaxAttempts == 2

MaxPage == 2

\* The dashboard with two invocations side by side, over one order.
CoreOrders ==
  {o \in RawOrders : /\ o.order_id = "A100" /\ o.printer = "genesis"
                     /\ o.label_url \in {Undef, "u1"}
                     /\ o.print_sent_at = Undef /\ o.name = "Asha"}

CoreSyncFields ==
  {NoSyncFields,
   [NoSyncFields EXCEPT !.matched_docs = 0, !.eligible_count = 0,
                        !.succeeded_shipments = 0],
   [NoSyncFields EXCEPT !.matched_docs = 2, !.eligible_shipments = 2,
                        !.succeeded_shipments = 1],
   [NoSyncFields EXCEPT !.detail = "queue locked"]}

CoreInputs ==
  [urlPrinters |-> {Undef}, urlTokens |-> {Undef, GenesisToken},
   logins |-> {"genesis", "nobody"}, pages |-> 0..MaxPage,
   listings |-> Listings(CoreOrders, {NoTotal, 19}, 1),
   creations |-> CreateResponses({NoCreated, [array |-> TRUE, ids |-> <<"A100">>]}),
   attempts |-> {ShipMaxAttempts},
   polls |-> PollResponses({o \in PollItems : o.order_id = "A100" /\ o.label_url # "u2"}, 1),
   syncs |-> SyncResponses(CoreSyncFields, {"none"})]

Next == NextOver(Procs, CoreInputs)

Spec == Init /\ [][Next]_vars

\* One invocation at a time, over two orders, every listing a poll can be
\* answered with, and every retry budget up to MaxAttempts.
RunOrders ==
  {o \in RawOrders : /\ o.order_id \in Ids /\ o.printer = "genesis"
                     /\ o.label_url \in {Undef, "u2"}
                     /\ o.print_sent_at = Undef /\ o.name = "Asha"}

RunInputs ==
  [urlPrinters |-> {Undef}, urlTokens |-> {Undef},
   logins |-> {"genesis", "nobody"}, pages |-> 0..MaxPage,
   listings |-> Listings(RunOrders, {NoTotal}, MaxListing),
   creations |-> CreateResponses(CreatedLists(MaxListing)),
   attempts |-> 1..MaxAttempts,
   polls |-> PollResponses(PollItems, MaxPollListing),
   syncs |-> SyncResponses({NoSyncFields}, {"none", "null"})]

NextRun == NextOver({"p1"}, RunInputs)

SpecRun == Init /\ [][NextRun]_vars

\* The store under refreshes of every kind: listings whose items differ in
\* their timestamp, in their queue tag and in their identifier (test orders,
\* the same identifier twice), for both queues; runs and syncs at their
\* smallest.
MaxStoreListing == 2

StampedOrders ==
  {o \in RawOrders : /\ o.printer = "genesis" /\ o.label_url = Undef /\ o.name = "Asha"
                     /\ \/ o.order_id = "A100"
                        \/ /\ o.order_id = "A101"
                           /\ o.print_sent_at \in {Undef, "2024-01-05T10:00:00"}}

TaggedOrders ==
  {o \in RawOrders : /\ o.label_url = Undef /\ o.print_sent_at = Undef /\ o.name = "Asha"
                     /\ \/ o.order_id = "A100"
                        \/ o.order_id = "TEST#1" /\ o.printer = "genesis"
                        \/ o.order_id = "test#2" /\ o.printer = "Genesis"}

StoreInputs ==
  [urlPrinters |-> {Undef}, urlTokens |-> {Undef},
   logins |-> {"genesis", "yara", "nobody"}, pages |-> 0..1,
   listings |-> Listings(StampedOrders \cup TaggedOrders, {NoTotal}, MaxStoreListing),
   creations |-> CreateResponses({NoCreated}),
   attempts |-> {1},
   polls |-> PollResponses({o \in PollItems : o.order_id = "A100" /\ o.label_url = "u1"}, 1),
   syncs |-> SyncResponses({NoSyncFields}, {"none"})]

NextStore == NextOver({"p1"}, StoreInputs)

SpecStore == Init /\ [][NextStore]_vars

\* parse applied to a timestamp the listing carries, on its own: the text the
\* comparator hands to Date and the number it compares.
StampTexts ==
  {NotADate} \cup
  [date : {TRUE}, wall : {0, 1704448800, 1704535200}, digits : {0, 1, 3, 4, 6},
   zone : Zones]

ParseStamp(t, engine) ==
  /\ event' = [Ev("parse", "", "") EXCEPT
                  !.parse = [text |-> t, given |-> Normalized(t), engine |-> engine,
                             time |-> parseText(t, engine)]]
  /\ UNCHANGED <<selected, loading, isShipping, isSyncing, currentPage, orders,
                 totalOrders, printerKey, token, role, initialized, view, procs>>

NextParse == \E t \in StampTexts, engine \in Engines : ParseStamp(t, engine)

SpecParse == Init /\ [][NextParse]_vars

\* ------------------------------------------------------ the access middleware

\* Longest list of email addresses a user carries.
MaxEmails == 2

allowedEmails ==
  {"husain@lhmm.in", "hello@lhmm.in", "haripriya@lhmm.in", "kush@lhmm.in",
   "arnav@lhmm.in", "fazil@lhmm.in", "chris@lhmm.in"}

\* createRouteMatcher(["/", "/unauthorized"])
isPublicRoute(path) == path \in {"/", "/unauthorized"}

\* A request as the middleware sees it: the path, the userId auth() resolves
\* to, process.env.CLERK_SECRET_KEY, whether users.getUser answers or throws,
\* and the user it answers with.
EmailEntries ==
  { [id |-> "e1", emailAddress |-> "husain@lhmm.in"],
    [id |-> "e2", emailAddress |-> "mallory@example.com"],
    [id |-> "e3", emailAddress |-> "Husain@lhmm.in"] }

Requests ==
  [path : {"/", "/unauthorized", "/generate_labels"},
   userId : {Null, "user_1"},
   secretKey : {"", "sk_live"},
   lookup : {"ok", "throws"},
   emailAddresses : SeqsUpTo(EmailEntries, MaxEmails),
   primaryEmailAddressId : {Null, "e1", "e2", "e3"}]

\* PrimaryEmail with the first address of the user taken, primary or not.
FirstEmail(req) ==
  IF req.emailAddresses = <<>> THEN Undef ELSE req.emailAddresses[1].emailAddress

\* user.emailAddresses.find((email) => email.id === user.primaryEmailAddressId)?.emailAddress
PrimaryEmail(req) ==
  LET hits == {i \in DOMAIN req.emailAddresses :
                 req.emailAddresses[i].id = req.primaryEmailAddressId}
  IN IF hits = {} THEN Undef
     ELSE req.emailAddresses[CHOOSE i \in hits : \A k \in hits : i <= k].emailAddress

\* The response of the middleware: NextResponse.next() or a redirect.
Response(req) ==
  IF isPublicRoute(req.path) THEN "next"
  ELSE IF ~Truthy(req.userId) THEN "redirect:/"
  ELSE IF ~Truthy(req.secretKey) THEN "redirect:/unauthorized"
  ELSE IF req.lookup = "throws" THEN "redirect:/unauthorized"
  ELSE IF ~Truthy(PrimaryEmail(req)) \/ PrimaryEmail(req) \notin allowedEmails
       THEN "redirect:/unauthorized"
  ELSE "next"

clerkMiddleware(req) ==
  /\ event' = [Ev("middleware", "", Response(req)) EXCEPT !.req = req]
  /\ UNCHANGED <<selected, loading, isShipping, isSyncing, currentPage, orders,
                 totalOrders, printerKey, token, role, initialized, view, procs>>

NextAccess == \E req \in Requests : clerkMiddleware(req)

SpecAccess == Init /\ [][NextAccess]_vars

\* The browser runs every task it has queued: a render that is due is
\* committed, and the continuation of a response or of a timer that has come
\* in is run, however often the operator's input gets in before it.  Every
\* request is answered or fails and every timer fires.
Fairness(P, D) ==
  /\ SF_vars(Render)
  /\ \A p \in P :
       /\ SF_vars(RenderRefetch(p))
       /\ SF_vars(RefetchDone(p, D.listings))
       /\ SF_vars(CreateDone(p, D.creations, D.attempts))
       /\ SF_vars(PollDone(p, D.polls))
       /\ SF_vars(SleepDone(p))
       /\ SF_vars(ShipRefreshDone(p, D.listings))
       /\ SF_vars(SyncDone(p, D.syncs))
       /\ SF_vars(SyncRefreshDone(p, D.listings))

\* The dashboard over one order and one page, with every invocation running
\* to its end.
LiveInputs ==
  [urlPrinters |-> {Undef}, urlTokens |-> {GenesisToken},
   logins |-> {"genesis", "nobody"}, pages |-> 0..MaxPage,
   listings |-> Listings({o \in CoreOrders : o.label_url = Undef}, {NoTotal, 19}, 1),
   creations |-> CreateResponses({NoCreated, [array |-> TRUE, ids |-> <<Undef>>]}),
   attempts |-> {ShipMaxAttempts},
   polls |-> PollResponses({o \in PollItems : o.order_id = "A100" /\ o.label_url = "u1"}, 1),
   syncs |-> SyncResponses({NoSyncFields}, {"none", "null"})]

\* One slot is in use; the other one is switched off, so that a refetch that
\* is due while the slot is taken waits for it and holds nothing up.
InitLive ==
  /\ selected = {}
  /\ loading = FALSE
  /\ isShipping = FALSE
  /\ isSyncing = FALSE
  /\ currentPage = 1
  /\ orders = <<>>
  /\ totalOrders = 0
  /\ printerKey = "genesis"
  /\ token = ""
  /\ role = Null
  /\ initialized = FALSE
  /\ view = Snapshot
  /\ procs = [p \in Procs |-> IF p = "p1" THEN IdleProc ELSE [IdleProc EXCEPT !.pc = "off"]]
  /\ event = Ev("init", "", "")

NextLive == NextOver({"p1"}, LiveInputs)

SpecLive == InitLive /\ [][NextLive]_vars /\ Fairness({"p1"}, LiveInputs)

\* The login form, with every user of USERS and a name that is none of them,
\* on a dashboard opened without a token; one slot is in use.
LoginInputs ==
  [LiveInputs EXCEPT !.urlPrinters = {Undef, "yara"}, !.urlTokens = {Undef},
                     !.logins = {u.username : u \in USERS} \cup {"nobody"}]

NextLogin == NextOver({"p1"}, LoginInputs)

SpecLogin == InitLive /\ [][NextLogin]_vars

\* ------------------------------------------------------------- the claims

\* The slots in which a reconciliation run (pollForLabels) is under way, and
\* those whose run has returned to shipNow.
Polling(p) == procs[p].pc \in {"poll", "sleep"}
RunReturned(p) == procs[p].pc = "shipRefresh"

\* C1: at every point of a run of pollForLabels and at its return, whatever
\* the listing service answered, the result map has one entry for each
\* identifier of targetIds and none for any other identifier.
C1_ResultKeysAreTargets ==
  \A p \in Procs :
    (Polling(p) \/ RunReturned(p)) => DOMAIN procs[p].result = procs[p].targetIds

\* C1 witness: a run for A100 alone returned on its second poll or later, on a
\* listing that carried labels for A100 and for A101, which is no target.
C1_Witness ==
  \E p \in Procs :
    /\ RunReturned(p)
    /\ procs[p].targetIds = {"A100"}
    /\ procs[p].nPoll >= 2
    /\ event.tag = "poll" /\ event.p = p
    /\ Truthy(event.map["A100"]) /\ Truthy(event.map["A101"])

\* C2: when the response to the first listing request of a run carries a
\* label for every target, the run has returned with that one request made,
\* no delay taken, and every entry set to the label the response carried.
C2_EarlyExit ==
  \A p \in Procs :
    ( /\ event.tag = "poll" /\ event.p = p
      /\ procs[p].attempt = 0
      /\ \A id \in procs[p].targetIds : Truthy(event.map[id]) )
    => /\ RunReturned(p)
       /\ procs[p].nPoll = 1
       /\ procs[p].nSleep = 0
       /\ procs[p].result = [id \in procs[p].targetIds |-> event.map[id]]

\* C2 witness: the first response labelled both targets of a run.
C2_Witness ==
  \E p \in Procs :
    /\ event.tag = "poll" /\ event.p = p
    /\ procs[p].attempt = 0
    /\ procs[p].targetIds = Ids
    /\ \A id \in Ids : Truthy(event.map[id])
    /\ RunReturned(p)

\* C3: a run in which no response carried a label for a target has, at its
\* return, made exactly maxAttempts listing requests, and every entry of its
\* result is null.
C3_ExhaustedAllNull ==
  \A p \in Procs :
    (RunReturned(p) /\ ~procs[p].sawLabel)
    => /\ procs[p].nPoll = procs[p].maxAttempts
       /\ \A id \in procs[p].targetIds : procs[p].result[id] = Null

\* C3 witness: a run with the largest budget returned without a label seen.
C3_Witness ==
  \E p \in Procs :
    /\ RunReturned(p) /\ ~procs[p].sawLabel
    /\ procs[p].maxAttempts = MaxAttempts
    /\ procs[p].targetIds = Ids

\* C4 (the claim as stated): once every target of a run has been found, each
\* in some poll of the run, the run issues no further listing request: while a
\* listing request of the run is under way, some target is still outstanding.
C4_StopsOnceAllFound ==
  \A p \in Procs :
    procs[p].pc = "poll" => \E id \in procs[p].targetIds : procs[p].result[id] = Null

\* C5 (the claim as stated): at most one ship or sync invocation is past its
\* guard at any time.
Active(p) ==
  procs[p].pc \in {"create", "poll", "sleep", "shipRefresh", "syncReq", "syncRefresh"}

C5_SingleFlight == Cardinality({p \in Procs : Active(p)}) <= 1

\* C6: a poll attempt that fails (non-OK status, rejected fetch, undecodable
\* body) leaves the result map as it was and does not end the run, which goes
\* to its delay with that attempt counted; when the delay is over the attempt
\* counter advances and the run makes its next request if attempt <
\* maxAttempts, and returns otherwise.
C6_FailedAttemptGoesOn ==
  [][\A p \in Procs :
       /\ (procs[p].pc = "poll" /\ event'.tag = "poll:failed" /\ event'.p = p)
          => /\ event'.msg \in FailKinds
             /\ procs'[p].pc = "sleep"
             /\ procs'[p].result = procs[p].result
             /\ procs'[p].attempt = procs[p].attempt
             /\ procs'[p].nPoll = procs[p].attempt + 1
       /\ (procs[p].pc = "sleep" /\ procs'[p].pc # "sleep")
          => /\ procs'[p].attempt = procs[p].attempt + 1
             /\ IF procs[p].attempt + 1 < procs[p].maxAttempts
                THEN procs'[p].pc = "poll" /\ procs'[p].nPoll = procs[p].nPoll + 1
                ELSE procs'[p].pc = "shipRefresh" /\ procs'[p].nPoll = procs[p].nPoll
    ]_vars

\* C6 witness: the second attempt or a later one of a run failed after an
\* earlier poll had found a label, and the run is in its delay.
C6_Witness ==
  \E p \in Procs :
    /\ event.tag = "poll:failed" /\ event.p = p
    /\ procs[p].pc = "sleep"
    /\ procs[p].attempt >= 1
    /\ procs[p].attempt + 1 < procs[p].maxAttempts
    /\ \E id \in procs[p].targetIds : procs[p].result[id] \in Labels

\* C7: a run makes at most maxAttempts listing requests, and they are
\* sequential: at most one is awaiting its response, and none is while the
\* run is in its delay or has returned.
C7_BoundedSequentialPolls ==
  \A p \in Procs :
    /\ procs[p].nPoll <= procs[p].maxAttempts
    /\ procs[p].inflight \in {0, 1}
    /\ procs[p].inflight = 1 => procs[p].pc = "poll"

\* C7 witness: a run over two targets has its last request under way.
C7_Witness ==
  \E p \in Procs :
    /\ procs[p].pc = "poll" /\ procs[p].inflight = 1
    /\ procs[p].maxAttempts = MaxAttempts
    /\ procs[p].nPoll = MaxAttempts
    /\ procs[p].targetIds = Ids

\* C8: the step in which a run returns (all found, or the budget exhausted)
\* changes, of the store, only the label_url of the records whose order_id the
\* result maps to a label: every other record, every other field, the number
\* and order of the records and the total stay as they were.
C8_PatchOnlyLabels ==
  [][\A p \in Procs :
       (Polling(p) /\ procs'[p].pc = "shipRefresh")
       => LET r == procs'[p].result
          IN /\ Len(orders') = Len(orders)
             /\ totalOrders' = totalOrders
             /\ \A i \in DOMAIN orders :
                  LET o == orders[i]
                  IN IF o.order_id \in DOMAIN r /\ r[o.order_id] \in Labels
                     THEN orders'[i] = [o EXCEPT !.label_url = r[o.order_id]]
                     ELSE orders'[i] = o
    ]_vars

\* C8 witness: a run has just returned with A100 found and A101 not; the page
\* holds both, A100 with the label found and A101 with the label it had.
C8_Witness ==
  \E p \in Procs :
    /\ RunReturned(p)
    /\ event.p = p /\ event.tag \in {"poll", "sleep:over"}
    /\ procs[p].targetIds = Ids
    /\ procs[p].result["A100"] = "u1" /\ procs[p].result["A101"] = Null
    /\ Len(orders) = 2
    /\ orders[1].order_id = "A101" /\ orders[1].label_url = "u2"
    /\ orders[2].order_id = "A100" /\ orders[2].label_url = "u1"

\* C9 (the claim as stated): when the sync request has come back with a
\* success response, syncOrders has started a refresh, and for the page the
\* operator is on.
C9_SyncRefreshesCurrentPage ==
  \A p \in Procs :
    ( /\ event.tag \in {"sync:refreshing", "sync:failed"} /\ event.p = p
      /\ event.ok )
    => /\ procs[p].pc = "syncRefresh"
       /\ procs[p].page = currentPage

\* C10: a refresh whose listing request failed (non-OK status, rejected fetch,
\* undecodable body) leaves the store empty, the total 0 and loading false.
C10_FailedRefreshEmptiesStore ==
  (event.tag \in {"refresh", "ship:refresh", "sync:completed"} /\ event.msg \in FailKinds)
  => /\ orders = <<>>
     /\ totalOrders = 0
     /\ loading = FALSE

\* C10 witness: the refresh of a page that showed a record failed on a non-OK
\* status.
C10_Witness ==
  /\ event.tag = "refresh" /\ event.msg = "status"
  /\ view.rows # {}
  /\ view.totalPages = 2

\* C11: the patch is idempotent.  For every store the dashboard reaches and
\* every patch (order_id, label_url), the store patched twice is the store
\* patched once; and the store a run has just patched with its result map is
\* left as it is by that patch applied again.
C11_PatchIdempotent ==
  /\ \A id \in Ids, lbl \in Labels :
       LET patch == [x \in {id} |-> lbl]
           once == Patched(orders, patch)
       IN Patched(once, patch) = once
  /\ \A p \in Procs :
       (RunReturned(p) /\ event.p = p /\ event.tag \in {"poll", "sleep:over"})
       => Patched(orders, procs[p].result) = orders

\* C11 witness: a run that exhausted its budget has just patched a store of
\* two records, giving A100 the label u1 it found and leaving A101, which it
\* did not resolve, without one.
C11_Witness ==
  \E p \in Procs :
    /\ RunReturned(p) /\ event.p = p /\ event.tag = "sleep:over"
    /\ procs[p].targetIds = Ids
    /\ procs[p].result["A100"] = "u1" /\ procs[p].result["A101"] = Null
    /\ view.rows = Ids
    /\ \E i, j \in DOMAIN orders :
         /\ orders[i].order_id = "A100" /\ orders[i].label_url = "u1"
         /\ orders[j].order_id = "A101" /\ orders[j].label_url = ""
    /\ \A i \in DOMAIN orders : orders[i].order_id = "A100" => orders[i].label_url = "u1"

\* A refresh (of the refetch effect, of shipNow or of syncOrders) has just put
\* a decoded listing into the store.
RefreshedOk ==
  event.tag \in {"refresh", "ship:refresh", "sync:completed"} /\ event.msg = "ok"

\* The timestamps that denote an instant.
IsInstant(v) ==
  v \in {"2024-01-05T10:00:00", "2024-01-06T10:00:00", "1970-01-01T00:00:00",
         "1969-12-31T23:59:59"}

\* C12 (the claim as stated): after a successful refresh, of two records of
\* the store that carry the timestamp of an instant the later one is not
\* behind the earlier one, and no record without a timestamp is ahead of a
\* record that carries one, whatever the text of that timestamp.
C12_SortedByPrintSentAt ==
  RefreshedOk =>
    \A i, j \in DOMAIN orders :
      i < j =>
        /\ (IsInstant(orders[i].print_sent_at) /\ IsInstant(orders[j].print_sent_at))
           => parse(orders[i].print_sent_at) >= parse(orders[j].print_sent_at)
        /\ ~(orders[i].print_sent_at = "" /\ orders[j].print_sent_at # "")

\* C13: the step in which a refresh for queue q puts a decoded listing into
\* the store leaves in the store only records whose printer tag is q up to
\* the case of the letters and whose order_id does not start with TEST#, in
\* either case of the letters.
C13_OnlyQueueAndNoTestOrders ==
  [][\A p \in Procs :
       ( /\ procs[p].pc \in {"effRefresh", "shipRefresh", "syncRefresh"}
         /\ event'.p = p
         /\ event'.tag \in {"refresh", "ship:refresh", "sync:completed"}
         /\ event'.msg = "ok" )
       => \A i \in DOMAIN orders' :
            /\ ToLowerCase(orders'[i].printer) = procs[p].printer
            /\ orders'[i].order_id \notin {"TEST#1", "test#2"}
    ]_vars

\* C13 witness: a refresh for the queue genesis has stored a record tagged
\* "Genesis", and nothing else, of a listing of two items.
C13_Witness ==
  /\ RefreshedOk
  /\ printerKey = "genesis"
  /\ totalOrders = 2
  /\ Len(orders) = 1
  /\ orders[1].printer = "Genesis"

\* C14 (the claim as stated): no two records of the store have the same
\* order_id.
C14_UniqueOrderIds ==
  \A i, j \in DOMAIN orders : i # j => orders[i].order_id # orders[j].order_id

\* C15: an invocation of shipNow or of syncOrders sends its mutating request
\* once: no invocation has sent more than one, an invocation that awaits the
\* response has sent exactly one, and when the request has failed, whatever
\* the response or the error, the invocation is over with no request under
\* way.
C15_NoRetry ==
  \A p \in Procs :
    /\ procs[p].nReq <= 1
    /\ procs[p].pc \in {"create", "syncReq"} => procs[p].nReq = 1
    /\ (event.p = p /\ event.tag \in {"ship:failed", "sync:failed"})
       => procs[p].pc = "idle"

\* C15 witness: a creation request was answered with status 500 and no body
\* that decodes; the invocation is over.
C15_Witness ==
  \E p \in Procs :
    /\ event.p = p /\ event.tag = "ship:failed"
    /\ event.status = "500" /\ event.msg = "HTTP 500"
    /\ procs[p].pc = "idle"
    /\ ~isShipping

\* C16 (the claim as stated): when the creation service answers with a
\* non-success status, the reason alerted is the detail field of the response
\* when it carries one, and the message of the status code otherwise.
C16_DetailOrStatusMessage ==
  (event.tag = "ship:failed" /\ event.status \in {"400", "500"})
  => event.msg = IF event.detail # Undef THEN event.detail
                 ELSE IF event.status = "400" THEN "HTTP 400" ELSE "HTTP 500"

\* C17: the step in which the request of a ship or sync invocation fails
\* (non-success status, rejected fetch) ends the invocation, with no poll made
\* and no refresh started, and leaves the records, the total, the selection
\* and loading as they were.
C17_FailureAbortsUnchanged ==
  [][\A p \in Procs :
       ( /\ procs[p].pc \in {"create", "syncReq"}
         /\ event'.p = p
         /\ event'.tag \in {"ship:failed", "sync:failed"} )
       => /\ procs'[p] = IdleProc
          /\ procs[p].nPoll = 0
          /\ orders' = orders
          /\ totalOrders' = totalOrders
          /\ selected' = selected
          /\ loading' = loading
    ]_vars

\* C17 witness: the sync request of an invocation made on a page that shows a
\* record, with that record selected, was answered with status 500.
C17_Witness ==
  \E p \in Procs :
    /\ event.p = p /\ event.tag = "sync:failed" /\ event.status = "500"
    /\ procs[p].pc = "idle"
    /\ orders # <<>>
    /\ selected # {}

\* C18: the targets of a run are the order ids of the created list of the
\* creation response when that list yields one or more, and the ids sent in
\* the creation request otherwise.
C18_TargetsCreatedElseRequested ==
  \A p \in Procs :
    (event.tag = "ship:polling" /\ event.p = p)
    => LET confirmed ==
             IF event.created.array
             THEN {event.created.ids[i] : i \in DOMAIN event.created.ids} \cap Ids
             ELSE {}
       IN procs[p].targetIds = IF confirmed # {} THEN confirmed ELSE procs[p].payload

\* C18 witness: A100 was sent, and the created list names A101 and carries an
\* entry without an order_id.
C18_Witness ==
  \E p \in Procs :
    /\ event.tag = "ship:polling" /\ event.p = p
    /\ procs[p].payload = {"A100"}
    /\ event.created = [array |-> TRUE, ids |-> <<"A101", Undef>>]
    /\ procs[p].targetIds = {"A101"}

\* C19 (the claim as stated): a run is in its delay only while another
\* attempt remains, and a run that has returned has taken one delay less than
\* it made listing requests.
C19_SleepsOnlyIfAttemptRemains ==
  \A p \in Procs :
    /\ procs[p].pc = "sleep" => procs[p].attempt + 1 < procs[p].maxAttempts
    /\ RunReturned(p) => procs[p].nSleep = procs[p].nPoll - 1

\* C20 (the claim as stated): once the session has ended (the token is
\* cleared) while a run is in its delay or awaits a listing response, no step
\* of that run sends a listing request or writes to the records, the
\* selection or the mutating flags.
C20_LogoutReleasesRun ==
  [][\A p \in Procs :
       ( /\ Polling(p)
         /\ ~Truthy(token)
         /\ event'.p = p
         /\ event'.tag \in {"poll", "poll:failed", "sleep:over"} )
       => /\ procs'[p].nPoll = procs[p].nPoll
          /\ orders' = orders
          /\ selected' = selected
          /\ isShipping' = isShipping
          /\ isSyncing' = isSyncing
    ]_vars

\* C21: every run of pollForLabels comes to its return, and it returns either
\* on a listing that showed a label for every target or with its budget of
\* attempts used up.
C21_RunTerminates ==
  \A p \in Procs :
    /\ Polling(p) ~> RunReturned(p)
    /\ [](RunReturned(p)
          => \/ procs[p].attempt = procs[p].maxAttempts
             \/ \A id \in procs[p].targetIds : procs[p].result[id] \in Labels)

\* C21 witness: a run has returned with its budget used up, each of its polls
\* having failed.
C21_Witness ==
  \E p \in Procs :
    /\ RunReturned(p)
    /\ procs[p].attempt = procs[p].maxAttempts
    /\ procs[p].nFail = procs[p].maxAttempts
    /\ procs[p].nSleep = procs[p].maxAttempts

\* C28: a mutating flag that is set is cleared again: from every state in
\* which isShipping or isSyncing is set, a state is reached in which both are
\* clear and the committed render accepts a new ship or sync; and whenever no
\* invocation is under way both flags are clear, whichever way the last one
\* ended.
C28_FlagsCleared ==
  /\ (isShipping \/ isSyncing) ~> (~isShipping /\ ~isSyncing /\ ~view.isMutating)
  /\ []((\A p \in Procs : ~Active(p)) => (~isShipping /\ ~isSyncing))

\* C28 witness: shipNow has ended on a refresh that failed, no invocation is
\* under way and the flags are clear.
C28_Witness ==
  /\ event.tag = "ship:refresh" /\ event.msg \in FailKinds
  /\ ~isShipping /\ ~isSyncing
  /\ \A p \in Procs : ~Active(p)

\* C22: no step of a run takes shipNow to its failure path, and a run of which
\* every poll failed returns as a run does of which every poll was answered
\* with a listing that showed no label: with every entry null, after
\* maxAttempts requests, and into shipNow's completion (the selection cleared,
\* the refresh started, the invocation still under way).
C22_ExhaustionIsCompletion ==
  \A p \in Procs :
    /\ (event.p = p /\ event.tag \in {"poll", "poll:failed", "sleep:over"})
       => procs[p].pc \in {"poll", "sleep", "shipRefresh"}
    /\ ( /\ RunReturned(p)
         /\ event.p = p /\ event.tag \in {"poll", "sleep:over"}
         /\ \/ procs[p].nFail = procs[p].nPoll
            \/ procs[p].nFail = 0 /\ ~procs[p].sawLabel )
       => /\ procs[p].result = [id \in procs[p].targetIds |-> Null]
          /\ procs[p].nPoll = procs[p].maxAttempts
          /\ procs[p].attempt = procs[p].maxAttempts
          /\ selected = {}
          /\ loading /\ isShipping

\* C22 witness: a run over two targets has just returned after the largest
\* budget of polls, all of which failed.
C22_Witness ==
  \E p \in Procs :
    /\ RunReturned(p)
    /\ event.p = p /\ event.tag = "sleep:over"
    /\ procs[p].targetIds = Ids
    /\ procs[p].nFail = MaxAttempts
    /\ procs[p].nPoll = MaxAttempts

\* C23: a run of pollForLabels has at least one target.
C23_TargetsNotEmpty ==
  \A p \in Procs : (Polling(p) \/ RunReturned(p)) => procs[p].targetIds # {}

\* C23 witness: the created list of the response is an array that yields no
\* order id, and the run is polling for the selection that was sent.
C23_Witness ==
  \E p \in Procs :
    /\ event.tag = "ship:polling" /\ event.p = p
    /\ event.created = [array |-> TRUE, ids |-> <<Undef>>]
    /\ procs[p].pc = "poll"
    /\ procs[p].targetIds = Ids

C24_TruncatedAndUtc ==
  (event.tag = "parse" /\ event.parse.text.date)
  => LET t == event.parse.text
         given == event.parse.given
     IN /\ given.digits = IF t.digits > 3 THEN 3 ELSE t.digits
        /\ given.zone = IF t.zone = "" THEN "Z" ELSE t.zone
        /\ given.wall = t.wall

\* A refresh is under way in slot p.
Refreshing(p) == procs[p].pc \in {"effRefresh", "shipRefresh", "syncRefresh"}

\* C26 (the claim as stated): the refresh that comes in last, with no other
\* refresh under way and none due, was requested for the queue and the page
\* that are selected now.
C26_LastRefreshIsCurrent ==
  [][\A p \in Procs :
       ( /\ Refreshing(p)
         /\ event'.p = p
         /\ event'.tag \in {"refresh", "ship:refresh", "sync:completed"}
         /\ \A q \in Procs : ~Refreshing(q)'
         /\ ~EffectDue' )
       => /\ procs[p].page = currentPage
          /\ procs[p].printer = printerKey
    ]_vars

\* C27 (the claim as stated): the refresh at the end of shipNow leaves every
\* record of the page that the run found a label for in the store, with that
\* label.
C27_PatchedLabelSurvivesRefresh ==
  [][\A p \in Procs :
       (procs[p].pc = "shipRefresh" /\ event'.p = p /\ event'.tag = "ship:refresh")
       => \A i \in DOMAIN orders :
            LET id == orders[i].order_id
            IN (id \in DOMAIN procs[p].result /\ procs[p].result[id] \in Labels)
               => \E j \in DOMAIN orders' :
                    /\ orders'[j].order_id = id
                    /\ orders'[j].label_url = procs[p].result[id]
    ]_vars

\* C29 (the claim as stated): the page that is selected is one of the pages
\* the total gives.
C29_PageInRange == 1 <= currentPage /\ currentPage <= totalPages(totalOrders)

\* C30: the middleware lets a request to the routes / and /unauthorized
\* proceed whatever else holds; a request to another route proceeds only if
\* it is authenticated, the secret key is set, the user lookup answers and
\* the user's primary email address is in the allow list; it is redirected
\* to / when it is not authenticated, and to /unauthorized on every other
\* failure.
C30_AccessDecision ==
  event.tag = "middleware" =>
    LET r == event.req
        authenticated == r.userId # Null
        primaryAllowed ==
          \E i \in DOMAIN r.emailAddresses :
            /\ r.emailAddresses[i].id = r.primaryEmailAddressId
            /\ \A k \in 1..(i - 1) : r.emailAddresses[k].id # r.primaryEmailAddressId
            /\ r.emailAddresses[i].emailAddress \in allowedEmails
        cleared == r.secretKey # "" /\ r.lookup = "ok" /\ primaryAllowed
    IN IF r.path \in {"/", "/unauthorized"} THEN event.msg = "next"
       ELSE IF ~authenticated THEN event.msg = "redirect:/"
       ELSE IF cleared THEN event.msg = "next"
       ELSE event.msg = "redirect:/unauthorized"

\* C30 witness: a request to /generate_labels of a user whose second address
\* is the primary one and is in the allow list, the first one not; it
\* proceeds.
C30_Witness ==
  /\ event.tag = "middleware" /\ event.msg = "next"
  /\ event.req.path = "/generate_labels"
  /\ event.req.emailAddresses =
       << [id |-> "e2", emailAddress |-> "mallory@example.com"],
          [id |-> "e1", emailAddress |-> "husain@lhmm.in"] >>
  /\ event.req.primaryEmailAddressId = "e1"

\* C31 (the claim as stated): the address handleLogin has written, loaded by
\* the effect of the first load, gives the token, the queue and the role the
\* login has set, for each user of USERS.
C31_LoginUrlRoundTrips ==
  event.tag = "login" =>
    /\ LoadedToken(event.url.token) = token
    /\ LoadedPrinter(event.url.printer) = printerKey
    /\ LoadedRole(event.url.token) = role

====
